---- MODULE Spec2Model ----
(***************************************************************************)
(* Geospatial feature resolution pipeline of the crop recommender:         *)
(* the recency-weighted climate estimate (get_weighted_climate), the soil  *)
(* fallback search (get_soil_data_with_fallback / fetch_soil_with_fallback),*)
(* the texture classifiers (map_texture_to_soil_type, three versions), the *)
(* soil-type encoders and the two feature-vector builders                  *)
(* (prepare_input_vector in main.py and in train_model/climate_utils.py).  *)
(*                                                                         *)
(* Numbers are fixed point.  Climate values (Kelvin, Celsius, percent of   *)
(* humidity) are integers in hundredths; soil chemistry and texture values *)
(* are integers in tenths; year weights are integers in 1/WeightScale.     *)
(* A Python value that may be None is boxed: None is <<>>, a value v is    *)
(* <<v>>.  A dict is a function from its keys.                             *)
(*                                                                         *)
(* Name binding.  main.py imports get_partial_soil_data, encode_soil_type, *)
(* SOIL_TYPE_ENCODER and map_texture_to_soil_type from one module; the     *)
(* only file defining all four is soil_utils.py, so main.py is bound to    *)
(* that file.  train_model/climate_utils.py calls fetch_soil_with_fallback *)
(* and the four-argument map_texture_to_soil_type, which are defined in    *)
(* climate_utils.py; get_soil_data is defined in train_model/soil_utils.py.*)
(***************************************************************************)
EXTENDS Integers, Sequences, FiniteSets, TLC

VARIABLES
    \* ---- get_weighted_climate, one invocation, statement by statement
    cpc,            \* "start" | "loop" | "done"
    target_month,   \* the parameter, reassigned at line 60
    current_month,  \* datetime.now().month read at line 59 (0 before)
    year,           \* the year the loop fetches next
    temp_sum, dew_sum, total_weight,
    skipped,        \* number of years that contributed nothing so far
    fetched,        \* the fetches issued so far: <<[y, start, end]>>
    cresult,        \* [exc, temperature, humidity] once done
    \* ---- the soil fallback search, one invocation, probe by probe
    spc,            \* "exact" | "ring" | "done"
    lat, lon,       \* the queried coordinate, in tenths of a degree
    max_radius, step,   \* in tenths of a degree
    ring,           \* i of "step * i": the radius being probed
    offset,         \* index into offsets of the next probe
    probes,         \* the probes issued so far: <<[lat, lon, answer]>>
    sresult,        \* <<"pending", None>> | <<"return", boxed sample>>
    \* ---- prepare_input_vector, one invocation
    pc,             \* the statement the invocation is at
    variant,        \* "main": main.py; "tm": train_model/climate_utils.py
    month,          \* the month argument
    climate_src,    \* the climate source this invocation talks to
    climate_exc,    \* what get_weighted_climate raised, "" if nothing
    climate_data,   \* boxed [temperature, humidity]
    soil_resp,      \* what the soil source answers in this invocation
    soil_data,      \* boxed dict
    soil_label,     \* boxed label
    input_vector,   \* boxed sequence of boxed numbers, set on return
    raised,         \* the exception the invocation ended with, "" if none
    calls,          \* the external calls made so far, in order
    queries,        \* every request sent to a source so far: [kind, key]
    \* ---- map_texture_to_soil_type, one call
    texture,        \* the arguments [texture_class, clay, sand, silt], boxed
    classified,     \* boxed [by, exc, label]: which version ran, its result
    encoded,        \* boxed [by, exc, code]: the encoding of the label returned
    \* ---- the loop body of get_weighted_climate applied to the years in
    \* ---- another order than range(2000, 2025)
    assignment,     \* the source and month that fix every year's sample
    visited,        \* the years the body has been applied to
    moved,          \* how many of them were taken out of ascending order
    shuffled        \* the accumulator [ts, ds, tw] after these years

cvars == <<cpc, target_month, current_month, year, temp_sum, dew_sum,
           total_weight, skipped, fetched, cresult>>
svars == <<spc, lat, lon, max_radius, step, ring, offset, probes, sresult>>
pvars == <<pc, variant, month, climate_src, climate_exc, climate_data, soil_resp,
           soil_data, soil_label, input_vector, raised, calls, queries>>
xvars == <<texture, classified, encoded>>
hvars == <<assignment, visited, moved, shuffled>>
vars == <<cvars, svars, pvars, xvars, hvars>>

----------------------------------------------------------------------------
(* Python values *)

None == <<>>
Some(v) == <<v>>
IsNone(x) == x = <<>>
Val(x) == x[1]

\* dict.get(key, default): the default only when the key is missing
DictGet(d, key, default) == IF key \in DOMAIN d THEN d[key] ELSE default

\* round-half-even of n/d, d > 0 (round(x, 2) on a value in hundredths)
RoundDiv(n, d) ==
    LET q == n \div d
        r == n % d
    IN  IF 2 * r < d THEN q
        ELSE IF 2 * r > d THEN q + 1
        ELSE IF q % 2 = 0 THEN q ELSE q + 1

\* <<floor(n * 10^k / d), remainder>> for 0 <= n, 0 < d, digit by digit
RECURSIVE LongDiv(_, _, _)
LongDiv(n, d, k) ==
    IF k = 0 THEN <<n \div d, n % d>>
    ELSE LET p == LongDiv(n, d, k - 1)
         IN  <<p[1] * 10 + (p[2] * 10) \div d, (p[2] * 10) % d>>

----------------------------------------------------------------------------
(* get_weighted_climate: train_model/climate_utils.py 52-86, identical to  *)
(* climate_utils.py 47-81                                                  *)

FirstYear == 2000
LastYear == 2024
WeightScale == 80
KelvinOffset == 27315

Years == FirstYear..LastYear

\* (variant of line 55 with "//" for "/": 0.1 + 0.9 * ((y - 2000) // 24))
weights_floor_division(y) ==
    WeightScale \div 10
    + 9 * (WeightScale \div 10) * ((y - FirstYear) \div (LastYear - FirstYear))

\* weights[y] = 0.1 + 0.9 * ((y - 2000) / (2024 - 2000)), in 1/WeightScale
weights(y) ==
    WeightScale \div 10
    + (9 * (WeightScale \div 10) * (y - FirstYear)) \div (LastYear - FirstYear)

\* kelvin_to_celsius of the weighted mean sum/weight, rounded to 2 decimals
kelvin_to_celsius(sum, weight) == RoundDiv(sum - KelvinOffset * weight, weight)

\* dewpoint_to_humidity(temp_c, dew_c) on the unrounded means, then
\* round(humidity, 2).  With tcN = ts - 273.15*w and dcN = ds - 273.15*w
\* (hundredths times w): 100*(112 - 0.1*tc + dc)/(112 + 0.9*tc) = 100*num/den.
\* Result <<exc, humidity>>; a zero denominator is Python's ZeroDivisionError.
dewpoint_to_humidity(ts, ds, w) ==
    LET tcN == ts - KelvinOffset * w
        dcN == ds - KelvinOffset * w
        num0 == 112000 * w - tcN + 10 * dcN
        den0 == 112000 * w + 9 * tcN
        num == IF den0 < 0 THEN 0 - num0 ELSE num0
        den == IF den0 < 0 THEN 0 - den0 ELSE den0
    IN  IF den0 = 0 THEN <<"ZeroDivisionError", 0>>
        ELSE IF num <= 0 THEN <<"", 0>>
        ELSE IF num >= den THEN <<"", 10000>>
        ELSE LET p == LongDiv(num, den, 4)
             IN  <<"", IF 2 * p[2] < den THEN p[1]
                       ELSE IF 2 * p[2] > den THEN p[1] + 1
                       ELSE IF p[1] % 2 = 0 THEN p[1] ELSE p[1] + 1>>

\* the one-month window [start_date, end_date) fetched for year y
FetchWindow(y, m) ==
    [y |-> y,
     start |-> <<y, m>>,
     end |-> IF m = 12 THEN <<y + 1, 1>> ELSE <<y, m + 1>>]

\* What one year's two getInfo() calls can give: an exception, or a
\* temperature and a dewpoint of which either may be None.
ClimateSamples ==
    { [temp |-> Some(26015), dew |-> Some(25800)],
      [temp |-> Some(29515), dew |-> Some(28800)] }

YearOutcomes ==
    { [exc |-> TRUE, temp |-> None, dew |-> None] }
    \cup { [exc |-> FALSE, temp |-> s.temp, dew |-> s.dew] : s \in ClimateSamples }
    \cup { [exc |-> FALSE, temp |-> None, dew |-> s.dew] : s \in ClimateSamples }
    \cup { [exc |-> FALSE, temp |-> s.temp, dew |-> None] : s \in ClimateSamples }
    \cup { [exc |-> FALSE, temp |-> None, dew |-> None] }

\* What the source gave for a year, as the skipped counter records it
HasBoth(o) == ~o.exc /\ o.temp # None /\ o.dew # None

\* lines 69-77: whether the year's outcome reaches the three += statements
Contributes(o) == ~o.exc /\ ~IsNone(o.temp) /\ ~IsNone(o.dew)

\* (variant of lines 72-75 without "total_weight += w")
Accumulate_no_weight(acc, y, o) ==
    IF Contributes(o)
    THEN [ts |-> acc.ts + Val(o.temp) * weights(y),
          ds |-> acc.ds + Val(o.dew) * weights(y),
          tw |-> acc.tw]
    ELSE acc

\* (variant of lines 72-75 with "temp_sum += temp_val * w" hoisted above
\* the test of dew_val)
Accumulate_temp_first(acc, y, o) ==
    IF o.exc \/ IsNone(o.temp) THEN acc
    ELSE IF IsNone(o.dew)
         THEN [ts |-> acc.ts + Val(o.temp) * weights(y), ds |-> acc.ds, tw |-> acc.tw]
         ELSE [ts |-> acc.ts + Val(o.temp) * weights(y),
               ds |-> acc.ds + Val(o.dew) * weights(y),
               tw |-> acc.tw + weights(y)]

\* (variant of lines 72-75 with "temp_sum = temp_val * w" for "+=")
Accumulate_assigns_temp(acc, y, o) ==
    IF Contributes(o)
    THEN [ts |-> Val(o.temp) * weights(y),
          ds |-> acc.ds + Val(o.dew) * weights(y),
          tw |-> acc.tw + weights(y)]
    ELSE acc

\* lines 72-75 on the accumulator acc = [ts, ds, tw]
Accumulate(acc, y, o) ==
    IF Contributes(o)
    THEN [ts |-> acc.ts + Val(o.temp) * weights(y),
          ds |-> acc.ds + Val(o.dew) * weights(y),
          tw |-> acc.tw + weights(y)]
    ELSE acc

\* line 80
NoClimateData == "ValueError: No valid climate data found"

\* lines 79-86 on the final accumulator
ClimateResult(acc) ==
    IF acc.tw = 0
    THEN [exc |-> NoClimateData, temperature |-> 0, humidity |-> 0]
    ELSE LET h == dewpoint_to_humidity(acc.ts, acc.ds, acc.tw)
         IN  IF h[1] # ""
             THEN [exc |-> h[1], temperature |-> 0, humidity |-> 0]
             ELSE [exc |-> "", temperature |-> kelvin_to_celsius(acc.ts, acc.tw),
                   humidity |-> h[2]]

MaxSamples == 2
Months == {0, 1, 12}
ClockMonths == {1, 12}
NoResult == [exc |-> "pending", temperature |-> 0, humidity |-> 0]

ClimateInit ==
    /\ cpc = "start"
    /\ target_month \in Months
    /\ current_month = 0
    /\ year = FirstYear
    /\ temp_sum = 0 /\ dew_sum = 0 /\ total_weight = 0
    /\ skipped = 0
    /\ fetched = <<>>
    /\ cresult = NoResult

\* (variant of lines 57-60 without line 60: the clock is read, the month
\* argument stays as passed)
ResolveMonth_keeps_0 ==
    /\ cpc = "start"
    /\ \E now \in ClockMonths : current_month' = now
    /\ cpc' = "loop"
    /\ UNCHANGED <<target_month, year, temp_sum, dew_sum, total_weight, skipped,
                   fetched, cresult>>
    /\ UNCHANGED <<svars, pvars, xvars, hvars>>

\* lines 57-60
ResolveMonth ==
    /\ cpc = "start"
    /\ \E now \in ClockMonths :
          /\ current_month' = now
          /\ target_month' = IF target_month = 0 THEN now ELSE target_month
    /\ cpc' = "loop"
    /\ UNCHANGED <<year, temp_sum, dew_sum, total_weight, skipped, fetched, cresult>>
    /\ UNCHANGED <<svars, pvars, xvars, hvars>>

\* lines 62-77: one iteration of the loop
FetchYear ==
    /\ cpc = "loop"
    /\ year <= LastYear
    /\ \E o \in YearOutcomes :
          /\ HasBoth(o) => (year - FirstYear) - skipped < MaxSamples
          /\ LET acc == Accumulate([ts |-> temp_sum, ds |-> dew_sum,
                                    tw |-> total_weight], year, o)
             IN  /\ temp_sum' = acc.ts
                 /\ dew_sum' = acc.ds
                 /\ total_weight' = acc.tw
          /\ skipped' = IF HasBoth(o) THEN skipped ELSE skipped + 1
    /\ fetched' = Append(fetched, FetchWindow(year, target_month))
    /\ year' = year + 1
    /\ UNCHANGED <<cpc, target_month, current_month, cresult>>
    /\ UNCHANGED <<svars, pvars, xvars, hvars>>

\* lines 79-86
FinishClimate ==
    /\ cpc = "loop"
    /\ year > LastYear
    /\ cresult' = ClimateResult([ts |-> temp_sum, ds |-> dew_sum, tw |-> total_weight])
    /\ cpc' = "done"
    /\ UNCHANGED <<target_month, current_month, year, temp_sum, dew_sum,
                   total_weight, skipped, fetched>>
    /\ UNCHANGED <<svars, pvars, xvars, hvars>>

ClimateNext == ResolveMonth \/ FetchYear \/ FinishClimate

----------------------------------------------------------------------------
(* get_soil_data: train_model/soil_utils.py 26-59 *)

PROPERTIES == {"ph", "n", "p", "k", "clay", "sand", "silt"}

\* The answers of the SoilGrids request: an exception (timeout, HTTP error,
\* malformed JSON), or per property a mean that may be missing.
SoilMeans ==
    { [ph |-> Some(68), n |-> Some(120), p |-> Some(200), k |-> Some(1500),
       clay |-> Some(250), sand |-> Some(450), silt |-> Some(300)],
      [ph |-> None, n |-> Some(120), p |-> None, k |-> None,
       clay |-> Some(500), sand |-> Some(200), silt |-> Some(300)],
      [ph |-> Some(55), n |-> None, p |-> None, k |-> None,
       clay |-> None, sand |-> Some(800), silt |-> None],
      [ph |-> None, n |-> None, p |-> None, k |-> None,
       clay |-> None, sand |-> None, silt |-> None] }

SoilResponses ==
    { [exc |-> TRUE, means |-> [key \in PROPERTIES |-> None]] }
    \cup { [exc |-> FALSE, means |-> m] : m \in SoilMeans }

\* What the source answered, as the probe log records it: the properties
\* when at least one of them has a value, None otherwise.
Answer(resp) ==
    IF ~resp.exc /\ (\E key \in PROPERTIES : resp.means[key] # None)
    THEN Some(resp.means)
    ELSE None

\* (variant of line 55 that wants every property: "all" for "any")
get_soil_data_all(resp) ==
    IF resp.exc THEN None
    ELSE IF \A key \in PROPERTIES : ~IsNone(resp.means[key])
         THEN Some(resp.means)
         ELSE None

\* lines 37-59: the boxed result dict, or None
get_soil_data(resp) ==
    IF resp.exc THEN None
    ELSE IF \E key \in PROPERTIES : ~IsNone(resp.means[key])
         THEN Some(resp.means)
         ELSE None

\* Python truth of "if soil_data:": not None and not an empty dict
Truthy(boxed) == ~IsNone(boxed) /\ DOMAIN Val(boxed) # {}

----------------------------------------------------------------------------
(* get_soil_data_with_fallback: train_model/soil_utils.py 61-100, and the  *)
(* identical fetch_soil_with_fallback: climate_utils.py 83-108             *)

DefaultMaxRadius == 5
DefaultStep == 1

\* int(max_radius / step) in IEEE double arithmetic, for arguments given in
\* tenths: 0.3/0.1, 0.6/0.1, 0.6/0.2 and 0.7/0.1 fall just below the integer
RingCount(mr, st) ==
    IF <<mr, st>> \in {<<3, 1>>, <<6, 1>>, <<6, 2>>, <<7, 1>>}
    THEN mr \div st - 1
    ELSE mr \div st

\* (variant of lines 83-87 with the diagonals before the axes)
offsets_diagonals_first(radius) ==
    << <<radius, radius>>, <<0 - radius, 0 - radius>>,
       <<radius, 0 - radius>>, <<0 - radius, radius>>,
       <<radius, 0>>, <<0 - radius, 0>>, <<0, radius>>, <<0, 0 - radius>> >>

\* (variant of lines 83-87 whose diagonals use the default step, not radius)
offsets_diagonals_at_step(radius) ==
    << <<radius, 0>>, <<0 - radius, 0>>, <<0, radius>>, <<0, 0 - radius>>,
       <<DefaultStep, DefaultStep>>, <<0 - DefaultStep, 0 - DefaultStep>>,
       <<DefaultStep, 0 - DefaultStep>>, <<0 - DefaultStep, DefaultStep>> >>

\* lines 83-87, for radius = step * i
offsets(radius) ==
    << <<radius, 0>>, <<0 - radius, 0>>, <<0, radius>>, <<0, 0 - radius>>,
       <<radius, radius>>, <<0 - radius, 0 - radius>>,
       <<radius, 0 - radius>>, <<0 - radius, radius>> >>

SearchParams == { <<DefaultMaxRadius, DefaultStep>>, <<3, 1>>, <<4, 2>> }
Latitudes == {410, -895}
Longitudes == {290, 1798}

Pending == <<"pending", None>>
Return(boxed) == <<"return", boxed>>

SoilInit ==
    /\ spc = "exact"
    /\ lat \in Latitudes
    /\ lon \in Longitudes
    /\ \E prm \in SearchParams : max_radius = prm[1] /\ step = prm[2]
    /\ ring = 1
    /\ offset = 1
    /\ probes = <<>>
    /\ sresult = Pending

\* lines 76-79: the exact coordinate
ProbeExact ==
    /\ spc = "exact"
    /\ \E resp \in SoilResponses :
          LET exact_data == get_soil_data(resp)
          IN  /\ probes' = Append(probes, [lat |-> lat, lon |-> lon,
                                           answer |-> Answer(resp)])
              /\ IF Truthy(exact_data)
                 THEN spc' = "done" /\ sresult' = Return(exact_data)
                 ELSE spc' = "ring" /\ sresult' = sresult
    /\ UNCHANGED <<lat, lon, max_radius, step, ring, offset>>
    /\ UNCHANGED <<cvars, pvars, xvars, hvars>>

\* lines 89-93: one probe of the ring step * ring
ProbeOffset ==
    /\ spc = "ring"
    /\ ring <= RingCount(max_radius, step)
    /\ \E resp \in SoilResponses :
          LET o == offsets(step * ring)[offset]
              nearby_data == get_soil_data(resp)
          IN  /\ probes' = Append(probes, [lat |-> lat + o[1], lon |-> lon + o[2],
                                           answer |-> Answer(resp)])
              /\ IF Truthy(nearby_data)
                 THEN spc' = "done" /\ sresult' = Return(nearby_data)
                      /\ UNCHANGED <<ring, offset>>
                 ELSE /\ spc' = spc /\ sresult' = sresult
                      /\ IF offset < Len(offsets(step * ring))
                         THEN offset' = offset + 1 /\ ring' = ring
                         ELSE offset' = 1 /\ ring' = ring + 1
    /\ UNCHANGED <<lat, lon, max_radius, step>>
    /\ UNCHANGED <<cvars, pvars, xvars, hvars>>

\* lines 95-96: every ring exhausted
SearchExhausted ==
    /\ spc = "ring"
    /\ ring > RingCount(max_radius, step)
    /\ spc' = "done"
    /\ sresult' = Return(None)
    /\ UNCHANGED <<lat, lon, max_radius, step, ring, offset, probes>>
    /\ UNCHANGED <<cvars, pvars, xvars, hvars>>

SoilNext == ProbeExact \/ ProbeOffset \/ SearchExhausted

----------------------------------------------------------------------------
(* get_weighted_climate and the soil search as whole calls, as the feature *)
(* vector builders make them                                               *)

\* The climate sources an invocation may talk to: per year what the two
\* getInfo() calls give.  A month outside 1..12 makes an invalid date range,
\* which the source rejects for every year.
ClimateSources ==
    {"raise", "null", "dewless", "cold", "frost", "edge", "warm", "sparse", "mixed"}

SourceOutcome(src, y, m) ==
    IF m \notin 1..12 THEN [exc |-> TRUE, temp |-> None, dew |-> None]
    ELSE CASE src = "raise" -> [exc |-> TRUE, temp |-> None, dew |-> None]
           [] src = "null" -> [exc |-> FALSE, temp |-> None, dew |-> None]
           [] src = "dewless" -> [exc |-> FALSE, temp |-> Some(29515), dew |-> None]
           [] src = "cold" -> [exc |-> FALSE, temp |-> Some(26015), dew |-> Some(25800)]
           [] src = "frost" -> [exc |-> FALSE, temp |-> Some(26814), dew |-> Some(26500)]
           [] src = "edge" -> [exc |-> FALSE, temp |-> Some(26815), dew |-> Some(26500)]
           [] src = "warm" -> [exc |-> FALSE, temp |-> Some(29515), dew |-> Some(28800)]
           [] src = "sparse" ->
                IF y = 2010
                THEN [exc |-> FALSE, temp |-> Some(28315), dew |-> Some(27815)]
                ELSE [exc |-> TRUE, temp |-> None, dew |-> None]
           [] src = "mixed" ->
                IF y % 3 = 0
                THEN [exc |-> FALSE, temp |-> Some(29515), dew |-> Some(28800)]
                ELSE IF y % 3 = 1
                THEN [exc |-> FALSE, temp |-> Some(26015), dew |-> Some(25800)]
                ELSE IF y % 2 = 0
                THEN [exc |-> FALSE, temp |-> Some(28315), dew |-> None]
                ELSE [exc |-> TRUE, temp |-> None, dew |-> None]

\* lines 62-77 of get_weighted_climate, from year y on
RECURSIVE ClimateLoop(_, _, _, _)
ClimateLoop(y, acc, src, m) ==
    IF y > LastYear THEN acc
    ELSE ClimateLoop(y + 1, Accumulate(acc, y, SourceOutcome(src, y, m)), src, m)

\* A request sent to a source: the climate source is asked for a window,
\* the soil source and the geocoder for a coordinate
Query(kind, key) == [kind |-> kind, key |-> key]

\* (variant of lines 69-77 that fetches a year again when the fetch raised)
YearQueries_retry(y, m, o) ==
    IF o.exc
    THEN << Query("climate", FetchWindow(y, m)), Query("climate", FetchWindow(y, m)) >>
    ELSE << Query("climate", FetchWindow(y, m)) >>

\* lines 63-71: the fetch of year y, whatever its outcome o is
YearQueries(y, m, o) == << Query("climate", FetchWindow(y, m)) >>

\* the fetches of lines 62-77 from year y on
RECURSIVE ClimateQueries(_, _, _)
ClimateQueries(y, src, m) ==
    IF y > LastYear THEN <<>>
    ELSE YearQueries(y, m, SourceOutcome(src, y, m)) \o ClimateQueries(y + 1, src, m)

\* get_weighted_climate(lat, lon, target_month) with the clock at month now
get_weighted_climate(m, now, src) ==
    ClimateResult(ClimateLoop(FirstYear, [ts |-> 0, ds |-> 0, tw |-> 0], src,
                              IF m = 0 THEN now ELSE m))

\* Lines 69-77, the body of the loop, applied to the years one by one in an
\* order that takes up to MaxMoved years ahead of their turn; the sample of
\* a year is fixed by the source and the month.
MaxMoved == 2

ShuffleInit ==
    /\ assignment \in [src : ClimateSources, m : ClockMonths]
    /\ visited = {}
    /\ moved = 0
    /\ shuffled = [ts |-> 0, ds |-> 0, tw |-> 0]

NextInTurn == CHOOSE y \in Years \ visited : \A z \in Years \ visited : y <= z

VisitYear ==
    /\ visited # Years
    /\ \E y \in Years \ visited :
          /\ y # NextInTurn => moved < MaxMoved
          /\ moved' = IF y = NextInTurn THEN moved ELSE moved + 1
          /\ visited' = visited \cup {y}
          /\ shuffled' = Accumulate(shuffled, y,
                                    SourceOutcome(assignment.src, y, assignment.m))
    /\ UNCHANGED <<assignment, cvars, svars, pvars, xvars>>

ShuffleNext == VisitYear

\* The soil sources an invocation of the search may talk to: probe number
\* "at" is answered with resp, every other probe fails.
SearchSources ==
    { [at |-> a, resp |-> r] : a \in {0, 1, 2, 41}, r \in SoilResponses }

ProbeResponse(scn, i) ==
    IF i = scn.at THEN scn.resp
    ELSE [exc |-> TRUE, means |-> [key \in PROPERTIES |-> None]]

\* fetch_soil_with_fallback(lat, lon) with the default max_radius and step,
\* from probe i on: the result and the number of probes issued
RECURSIVE SearchFrom(_, _)
SearchFrom(i, scn) ==
    LET data == get_soil_data(ProbeResponse(scn, i))
    IN  IF Truthy(data) THEN [result |-> data, nprobes |-> i]
        ELSE IF i >= 1 + Len(offsets(DefaultStep)) * RingCount(DefaultMaxRadius, DefaultStep)
             THEN [result |-> None, nprobes |-> i]
             ELSE SearchFrom(i + 1, scn)

fetch_soil_with_fallback(scn) == SearchFrom(1, scn)

\* the coordinate of the i-th probe of the search around (la, lo): the exact
\* point, then the offsets of ring after ring (lines 86, 92-94)
ProbeCoordinate(la, lo, i) ==
    IF i = 1 THEN <<la, lo>>
    ELSE LET n == Len(offsets(DefaultStep))
             o == offsets(DefaultStep * (((i - 2) \div n) + 1))[((i - 2) % n) + 1]
         IN  <<la + o[1], lo + o[2]>>

\* the requests of a search that issued nprobes probes
SoilQueries(la, lo, nprobes) ==
    [i \in 1..nprobes |-> Query("soil", ProbeCoordinate(la, lo, i))]

----------------------------------------------------------------------------
(* get_partial_soil_data: soil_utils.py 25-167 *)

properties == {"phh2o", "nitrogen", "clay", "sand", "silt"}

Layer(mean, d_factor) == [mean |-> mean, d_factor |-> d_factor]
NoLayer == Layer(None, 1)

\* The answers of the SoilGrids request: an exception, a status, and the
\* layers (None when "properties"/"layers" is missing or empty), each layer
\* with the 0-5cm mean (None when missing) and its d_factor.
PartialResponses ==
    { [exc |-> TRUE, status |-> 0, layers |-> None],
      [exc |-> FALSE, status |-> 500, layers |-> None],
      [exc |-> FALSE, status |-> 200, layers |-> None],
      [exc |-> FALSE, status |-> 200, layers |-> Some(
          [phh2o |-> Layer(Some(68), 10), nitrogen |-> Layer(Some(1200), 100),
           clay |-> Layer(Some(250), 10), sand |-> Layer(Some(450), 10),
           silt |-> Layer(Some(300), 10)])],
      [exc |-> FALSE, status |-> 200, layers |-> Some(
          [phh2o |-> NoLayer, nitrogen |-> NoLayer,
           clay |-> Layer(Some(500), 10), sand |-> Layer(Some(200), 10),
           silt |-> Layer(Some(300), 10)])],
      [exc |-> FALSE, status |-> 200, layers |-> Some(
          [phh2o |-> Layer(Some(55), 10), nitrogen |-> NoLayer,
           clay |-> NoLayer, sand |-> Layer(Some(800), 10), silt |-> NoLayer])],
      [exc |-> FALSE, status |-> 200, layers |-> Some(
          [phh2o |-> NoLayer, nitrogen |-> NoLayer,
           clay |-> NoLayer, sand |-> NoLayer, silt |-> NoLayer])],
      [exc |-> FALSE, status |-> 200, layers |-> Some(
          [phh2o |-> Layer(Some(68), 10), nitrogen |-> Layer(Some(1200), 100),
           clay |-> Layer(Some(250), 0), sand |-> Layer(Some(450), 10),
           silt |-> Layer(Some(300), 10)])] }

\* lines 122-129: mean_value / d_factor, in tenths
converted_value(layer) == Some((Val(layer.mean) * 10) \div layer.d_factor)

\* lines 53-167: the boxed processed_data, or None
get_partial_soil_data(resp) ==
    IF resp.exc \/ resp.status # 200 \/ IsNone(resp.layers) THEN None
    ELSE LET layers == Val(resp.layers)
             found == {pr \in properties : ~IsNone(layers[pr].mean)}
             extracted(pr, default) ==
                 IF pr \in found THEN converted_value(layers[pr]) ELSE Some(default)
         IN  IF \E pr \in found : layers[pr].d_factor = 0 THEN None
             ELSE IF found = {} THEN None
             ELSE Some([ph |-> extracted("phh2o", 70),
                        n |-> extracted("nitrogen", 10),
                        p |-> Some(200),
                        k |-> Some(2000),
                        clay_percent |-> extracted("clay", 200),
                        sand_percent |-> extracted("sand", 400),
                        silt_percent |-> extracted("silt", 400)])

----------------------------------------------------------------------------
(* map_texture_to_soil_type, three versions.  Arguments are boxed; the     *)
(* result is [exc, label].  Comparing None with a number is a TypeError.   *)

Pct(n) == n * 10
Label(l) == [exc |-> "", label |-> l]
LabelRaise(e) == [exc |-> e, label |-> ""]

\* train_model/soil_utils.py 102-142
map_texture_to_soil_type(clay, sand, silt) ==
    IF IsNone(clay) \/ IsNone(sand) \/ IsNone(silt) THEN Label("Unknown")
    ELSE LET c == Val(clay)
             s == Val(sand)
             t == Val(silt)
         IN  IF c > Pct(40) THEN Label("Clay")
             ELSE IF s > Pct(70) THEN Label("Sandy")
             ELSE IF t > Pct(40) THEN Label("Silty")
             ELSE IF /\ Pct(20) < c /\ c < Pct(35)
                     /\ Pct(20) < s /\ s < Pct(70)
                     /\ Pct(20) < t /\ t < Pct(70) THEN Label("Loamy")
             ELSE IF c < Pct(20) /\ s < Pct(52) /\ t > Pct(28) THEN Label("Peaty")
             ELSE IF c > Pct(20) /\ s < Pct(20) /\ t < Pct(20) THEN Label("Black")
             ELSE IF s > Pct(60) /\ c < Pct(10) THEN Label("Red")
             ELSE IF s > Pct(20) /\ t > Pct(20) /\ c < Pct(10) THEN Label("Saline")
             ELSE Label("Unknown")

\* soil_utils.py 169-183
map_texture_to_soil_type_soil_utils(clay, sand, silt) ==
    IF IsNone(clay) \/ IsNone(sand) THEN Label("Unknown")
    ELSE IF Val(clay) > Pct(40) THEN Label("Clay")
    ELSE IF Val(sand) > Pct(60) THEN Label("Sandy")
    ELSE IF IsNone(silt) THEN LabelRaise("TypeError")
    ELSE IF Val(silt) > Pct(40) THEN Label("Loamy")
    ELSE IF Val(clay) > Pct(20) THEN Label("Loamy")
    ELSE Label("Unknown")

\* str.capitalize() on the texture labels a caller may pass
TextureClasses == {"Unknown", "unknown", "clay", "Sandy", "SILTY", "silt loam"}

capitalize(str) ==
    CASE str = "Unknown" -> "Unknown"
      [] str = "unknown" -> "Unknown"
      [] str = "clay" -> "Clay"
      [] str = "Sandy" -> "Sandy"
      [] str = "SILTY" -> "Silty"
      [] str = "silt loam" -> "Silt loam"

\* (variant of climate_utils.py 110-130 with the Peaty rule of line 125
\* moved in front of the Silty rule of line 117)
map_texture_to_soil_type_peaty_first(texture_class, clay, sand, silt) ==
    IF IsNone(texture_class) THEN LabelRaise("AttributeError")
    ELSE IF Val(texture_class) # "Unknown" THEN Label(capitalize(Val(texture_class)))
    ELSE IF IsNone(clay) THEN LabelRaise("TypeError")
    ELSE IF Val(clay) > Pct(40) THEN Label("Clay")
    ELSE IF IsNone(sand) THEN LabelRaise("TypeError")
    ELSE IF Val(sand) > Pct(70) THEN Label("Sandy")
    ELSE IF IsNone(silt) THEN LabelRaise("TypeError")
    ELSE LET c == Val(clay)
             s == Val(sand)
             t == Val(silt)
         IN  IF t > Pct(50) /\ c < Pct(10) /\ s < Pct(20) THEN Label("Peaty")
             ELSE IF t > Pct(40) THEN Label("Silty")
             ELSE IF /\ Pct(20) < c /\ c <= Pct(40)
                     /\ Pct(20) < s /\ s <= Pct(70)
                     /\ Pct(20) < t /\ t <= Pct(70) THEN Label("Loamy")
             ELSE IF c > Pct(20) /\ s < Pct(20) /\ t < Pct(20) THEN Label("Black")
             ELSE IF s > Pct(60) /\ c < Pct(10) THEN Label("Red")
             ELSE IF s > Pct(20) /\ t > Pct(20) /\ c < Pct(10) THEN Label("Saline")
             ELSE Label("Unknown")

\* climate_utils.py 110-130
map_texture_to_soil_type_climate_utils(texture_class, clay, sand, silt) ==
    IF IsNone(texture_class) THEN LabelRaise("AttributeError")
    ELSE IF Val(texture_class) # "Unknown" THEN Label(capitalize(Val(texture_class)))
    ELSE IF IsNone(clay) THEN LabelRaise("TypeError")
    ELSE IF Val(clay) > Pct(40) THEN Label("Clay")
    ELSE IF IsNone(sand) THEN LabelRaise("TypeError")
    ELSE IF Val(sand) > Pct(70) THEN Label("Sandy")
    ELSE IF IsNone(silt) THEN LabelRaise("TypeError")
    ELSE LET c == Val(clay)
             s == Val(sand)
             t == Val(silt)
         IN  IF t > Pct(40) THEN Label("Silty")
             ELSE IF /\ Pct(20) < c /\ c <= Pct(40)
                     /\ Pct(20) < s /\ s <= Pct(70)
                     /\ Pct(20) < t /\ t <= Pct(70) THEN Label("Loamy")
             ELSE IF c > Pct(20) /\ s < Pct(20) /\ t < Pct(20) THEN Label("Black")
             ELSE IF s > Pct(60) /\ c < Pct(10) THEN Label("Red")
             ELSE IF t > Pct(50) /\ c < Pct(10) /\ s < Pct(20) THEN Label("Peaty")
             ELSE IF s > Pct(20) /\ t > Pct(20) /\ c < Pct(10) THEN Label("Saline")
             ELSE Label("Unknown")

\* The arguments a call may get, in tenths of a percent
TextureValues ==
    {None} \cup {Some(v) : v \in {50, 150, 200, 250, 300, 350, 400, 450, 550, 650, 750}}

ClassifyInit ==
    /\ texture \in [texture_class : {None} \cup {Some(h) : h \in TextureClasses},
                    clay : TextureValues, sand : TextureValues, silt : TextureValues]
    /\ classified = None
    /\ encoded = None

Classified(by, res) == Some([by |-> by, exc |-> res.exc, label |-> res.label])

\* a call of train_model/soil_utils.py's version
ClassifyTrainModel ==
    /\ classified = None
    /\ classified' = Classified("train_model/soil_utils.py",
            map_texture_to_soil_type(texture.clay, texture.sand, texture.silt))
    /\ UNCHANGED <<texture, encoded, cvars, svars, pvars, hvars>>

\* a call of soil_utils.py's version
ClassifySoilUtils ==
    /\ classified = None
    /\ classified' = Classified("soil_utils.py",
            map_texture_to_soil_type_soil_utils(texture.clay, texture.sand, texture.silt))
    /\ UNCHANGED <<texture, encoded, cvars, svars, pvars, hvars>>

\* a call of climate_utils.py's version
ClassifyClimateUtils ==
    /\ classified = None
    /\ classified' = Classified("climate_utils.py",
            map_texture_to_soil_type_climate_utils(texture.texture_class, texture.clay,
                                                   texture.sand, texture.silt))
    /\ UNCHANGED <<texture, encoded, cvars, svars, pvars, hvars>>


----------------------------------------------------------------------------
(* The soil-type encoders *)

\* LabelEncoder().fit(SOIL_TYPES).classes_: the labels, sorted
\* (train_model/soil_utils.py 22-24, train_model/climate_utils.py 13-15)
classes_ ==
    <<"Black", "Clay", "Loamy", "Peaty", "Red", "Saline", "Sandy", "Silty", "Unknown">>

\* LabelEncoder.transform([label])[0]: [exc, code]
transform(label) ==
    IF \E i \in 1..Len(classes_) : classes_[i] = label
    THEN [exc |-> "", code |-> (CHOOSE i \in 1..Len(classes_) : classes_[i] = label) - 1]
    ELSE [exc |-> "ValueError", code |-> 0]

\* train_model/soil_utils.py 144-161
encode_soil_type(label) ==
    IF transform(label).exc = "" THEN transform(label).code
    ELSE transform("Unknown").code

\* soil_utils.py 8-17
SOIL_TYPE_ENCODER ==
    [Black |-> 0, Clay |-> 1, Loamy |-> 2, Peaty |-> 3, Red |-> 4, Saline |-> 5,
     Sandy |-> 6, Unknown |-> 7]

\* soil_utils.py 19-23
encode_soil_type_soil_utils(label) ==
    DictGet(SOIL_TYPE_ENCODER, label, SOIL_TYPE_ENCODER["Unknown"])

\* a label came back and has not been encoded yet
ToEncode == classified # None /\ Val(classified).exc = "" /\ encoded = None

Encoded(by, exc, code) == Some([by |-> by, exc |-> exc, code |-> code])

\* encode_soil_type(label) of train_model/soil_utils.py
EncodeTrainModel ==
    /\ ToEncode
    /\ encoded' = Encoded("train_model/soil_utils.py", "",
                          encode_soil_type(Val(classified).label))
    /\ UNCHANGED <<texture, classified, cvars, svars, pvars, hvars>>

\* encode_soil_type(soil_label, SOIL_TYPE_ENCODER) of soil_utils.py, as
\* main.py 141 calls it
EncodeSoilUtils ==
    /\ ToEncode
    /\ encoded' = Encoded("soil_utils.py", "",
                          encode_soil_type_soil_utils(Val(classified).label))
    /\ UNCHANGED <<texture, classified, cvars, svars, pvars, hvars>>

\* train_model/climate_utils.py 106-107: SOIL_TYPE_ENCODER.transform on what
\* the four-argument map_texture_to_soil_type returned
EncodeTransform ==
    /\ ToEncode
    /\ Val(classified).by = "climate_utils.py"
    /\ encoded' = Encoded("train_model/climate_utils.py",
                          transform(Val(classified).label).exc,
                          transform(Val(classified).label).code)
    /\ UNCHANGED <<texture, classified, cvars, svars, pvars, hvars>>

ClassifyNext ==
    \/ ClassifyTrainModel \/ ClassifySoilUtils \/ ClassifyClimateUtils
    \/ EncodeTrainModel \/ EncodeSoilUtils \/ EncodeTransform

----------------------------------------------------------------------------
(* prepare_input_vector: main.py 80-179 (variant "main") and               *)
(* train_model/climate_utils.py 89-118 (variant "tm")                      *)

Variants == {"main", "tm"}
RequestLatitudes == {410, -900, 905}
RequestLongitudes == {290, 1800, -1805}
RequestMonths == {-1, 0, 1, 6, 12, 13}

Call(kind, n) == [kind |-> kind, n |-> n]

\* (variant of line 96 that substitutes zeros)
default_climate_zero == [temperature |-> 0, humidity |-> 0]

\* main.py 96
default_climate == [temperature |-> 2000, humidity |-> 7000]

\* main.py 114-122
default_soil ==
    [ph |-> Some(65), n |-> Some(150), p |-> Some(250), k |-> Some(1800),
     clay_percent |-> Some(200), sand_percent |-> Some(400),
     silt_percent |-> Some(400)]

PipelineInit ==
    /\ variant \in Variants
    /\ pc = IF variant = "main" THEN "validate" ELSE "soil"
    /\ lat \in RequestLatitudes
    /\ lon \in RequestLongitudes
    /\ month \in RequestMonths
    /\ climate_src = "" /\ climate_exc = "" /\ climate_data = None
    /\ soil_resp = None /\ soil_data = None
    /\ soil_label = None /\ input_vector = None
    /\ raised = "" /\ calls = <<>> /\ queries = <<>>

\* (variant of line 83 that lets the month 0 through)
validation_error_from_0(m, la, lo) ==
    IF ~(0 <= m /\ m <= 12) THEN "ValueError: Month must be between 1 and 12."
    ELSE IF ~(-900 <= la /\ la <= 900)
    THEN "ValueError: Latitude must be between -90 and 90."
    ELSE IF ~(-1800 <= lo /\ lo <= 1800)
    THEN "ValueError: Longitude must be between -180 and 180."
    ELSE ""

\* main.py 83-88: the ValueError raised, "" when the input passes
validation_error(m, la, lo) ==
    IF ~(1 <= m /\ m <= 12) THEN "ValueError: Month must be between 1 and 12."
    ELSE IF ~(-900 <= la /\ la <= 900)
    THEN "ValueError: Latitude must be between -90 and 90."
    ELSE IF ~(-1800 <= lo /\ lo <= 1800)
    THEN "ValueError: Longitude must be between -180 and 180."
    ELSE ""

\* main.py 83-88
Validate ==
    /\ variant = "main" /\ pc = "validate"
    /\ raised' = validation_error(month, lat, lon)
    /\ pc' = IF validation_error(month, lat, lon) # "" THEN "done" ELSE "climate"
    /\ UNCHANGED <<variant, month, climate_src, climate_exc, climate_data, soil_resp,
                   soil_data, soil_label, input_vector, calls, queries>>
    /\ UNCHANGED <<cvars, svars, xvars, hvars>>

\* main.py 92-97
MainClimate ==
    /\ variant = "main" /\ pc = "climate"
    /\ \E src \in ClimateSources, now \in ClockMonths :
          LET res == get_weighted_climate(month, now, src)
          IN  /\ climate_src' = src
              /\ queries' = queries \o ClimateQueries(FirstYear, src,
                                                      IF month = 0 THEN now ELSE month)
              /\ climate_exc' = res.exc
              /\ climate_data' =
                    IF res.exc = ""
                    THEN Some([temperature |-> res.temperature, humidity |-> res.humidity])
                    ELSE Some(default_climate)
    /\ calls' = Append(calls, Call("climate", Cardinality(Years)))
    /\ pc' = "soil"
    /\ UNCHANGED <<variant, month, soil_resp, soil_data, soil_label, input_vector, raised>>
    /\ UNCHANGED <<cvars, svars, xvars, hvars>>

\* main.py 100-108
MainSoil ==
    /\ variant = "main" /\ pc = "soil"
    /\ \E resp \in PartialResponses :
          /\ soil_resp' = Some(resp)
          /\ soil_data' = get_partial_soil_data(resp)
    /\ calls' = Append(calls, Call("soil", 1))
    /\ queries' = Append(queries, Query("soil", <<lat, lon>>))
    /\ pc' = "check"
    /\ UNCHANGED <<variant, month, climate_src, climate_exc, climate_data, soil_label,
                   input_vector, raised>>
    /\ UNCHANGED <<cvars, svars, xvars, hvars>>

\* (variant of line 110 with "<=" for "<")
unplantable_at_minus_5(sd, cd) == IsNone(sd) /\ Val(cd).temperature <= -500

\* main.py 110: soil_data is None and climate_data["temperature"] < -5
unplantable(sd, cd) == IsNone(sd) /\ Val(cd).temperature < -500

\* main.py 110-124
MainDefaultSoil ==
    /\ variant = "main" /\ pc = "check"
    /\ IF unplantable(soil_data, climate_data)
       THEN /\ raised' = "ValueError: This region is unplantable"
            /\ pc' = "done"
            /\ soil_data' = soil_data
       ELSE /\ raised' = raised
            /\ pc' = "assemble"
            /\ soil_data' = IF IsNone(soil_data) THEN Some(default_soil) ELSE soil_data
    /\ UNCHANGED <<variant, month, climate_src, climate_exc, climate_data, soil_resp,
                   soil_label, input_vector, calls, queries>>
    /\ UNCHANGED <<cvars, svars, xvars, hvars>>

\* main.py 126-139: [exc, label]
MainLabel(sd) ==
    IF {"clay_percent", "sand_percent", "silt_percent"} \subseteq DOMAIN sd
    THEN map_texture_to_soil_type_soil_utils(sd["clay_percent"], sd["sand_percent"],
                                             sd["silt_percent"])
    ELSE IF {"clay", "sand", "silt"} \subseteq DOMAIN sd
    THEN map_texture_to_soil_type_soil_utils(sd["clay"], sd["sand"], sd["silt"])
    ELSE Label("Loamy")

\* (variant of lines 143-151 that leaves the humidity out)
MainVector_without_humidity(encoded_soil, sd, cd) ==
    << Some(encoded_soil),
       DictGet(sd, "ph", Some(65)),
       DictGet(sd, "k", Some(1800)),
       DictGet(sd, "p", Some(250)),
       DictGet(sd, "n", Some(150)),
       Some(cd.temperature) >>

\* (variant of lines 143-151 with n and k exchanged)
MainVector_n_before_k(encoded_soil, sd, cd) ==
    << Some(encoded_soil),
       DictGet(sd, "ph", Some(65)),
       DictGet(sd, "n", Some(150)),
       DictGet(sd, "p", Some(250)),
       DictGet(sd, "k", Some(1800)),
       Some(cd.temperature),
       Some(cd.humidity) >>

\* main.py 143-151
MainVector(encoded_soil, sd, cd) ==
    << Some(encoded_soil),
       DictGet(sd, "ph", Some(65)),
       DictGet(sd, "k", Some(1800)),
       DictGet(sd, "p", Some(250)),
       DictGet(sd, "n", Some(150)),
       Some(cd.temperature),
       Some(cd.humidity) >>

\* main.py 153: any(x is None for x in input_vector)
AnyNone(vector) == \E i \in 1..Len(vector) : IsNone(vector[i])

\* main.py 126-154
MainAssemble ==
    /\ variant = "main" /\ pc = "assemble"
    /\ LET lab == MainLabel(Val(soil_data))
       IN  IF lab.exc # ""
           THEN /\ raised' = lab.exc /\ pc' = "done"
                /\ UNCHANGED <<soil_label, input_vector>>
           ELSE LET vector == MainVector(encode_soil_type_soil_utils(lab.label),
                                         Val(soil_data), Val(climate_data))
                IN  /\ soil_label' = Some(lab.label)
                    /\ input_vector' = Some(vector)
                    /\ IF AnyNone(vector)
                       THEN /\ raised' = "ValueError: Some required soil or climate data is missing."
                            /\ pc' = "done"
                       ELSE raised' = raised /\ pc' = "locate"
    /\ UNCHANGED <<variant, month, climate_src, climate_exc, climate_data, soil_resp,
                   soil_data, calls, queries>>
    /\ UNCHANGED <<cvars, svars, xvars, hvars>>

\* main.py 156-175: the geocoder is asked, whatever it says the vector is
\* returned
MainReturn ==
    /\ variant = "main" /\ pc = "locate"
    /\ calls' = Append(calls, Call("geocoder", 1))
    /\ queries' = Append(queries, Query("geocoder", <<lat, lon>>))
    /\ pc' = "done"
    /\ UNCHANGED <<variant, month, climate_src, climate_exc, climate_data, soil_resp,
                   soil_data, soil_label, input_vector, raised>>
    /\ UNCHANGED <<cvars, svars, xvars, hvars>>

\* train_model/climate_utils.py 91-94
TmSoil ==
    /\ variant = "tm" /\ pc = "soil"
    /\ \E scn \in SearchSources :
          LET res == fetch_soil_with_fallback(scn)
          IN  /\ soil_resp' = Some(scn)
              /\ soil_data' = IF Truthy(res.result) THEN res.result ELSE Some(<<>>)
              /\ calls' = Append(calls, Call("soil", res.nprobes))
              /\ queries' = queries \o SoilQueries(lat, lon, res.nprobes)
    /\ pc' = "climate"
    /\ UNCHANGED <<variant, month, climate_src, climate_exc, climate_data, soil_label,
                   input_vector, raised>>
    /\ UNCHANGED <<cvars, svars, xvars, hvars>>

\* train_model/climate_utils.py 97-99
TmClimate ==
    /\ variant = "tm" /\ pc = "climate"
    /\ \E src \in ClimateSources, now \in ClockMonths :
          LET res == get_weighted_climate(month, now, src)
          IN  /\ climate_src' = src
              /\ queries' = queries \o ClimateQueries(FirstYear, src,
                                                      IF month = 0 THEN now ELSE month)
              /\ climate_exc' = res.exc
              /\ IF res.exc # ""
                 THEN raised' = res.exc /\ pc' = "done" /\ climate_data' = climate_data
                 ELSE /\ raised' = raised /\ pc' = "assemble"
                      /\ climate_data' = Some([temperature |-> res.temperature,
                                               humidity |-> res.humidity])
    /\ calls' = Append(calls, Call("climate", Cardinality(Years)))
    /\ UNCHANGED <<variant, month, soil_resp, soil_data, soil_label, input_vector>>
    /\ UNCHANGED <<cvars, svars, xvars, hvars>>

\* train_model/climate_utils.py 110-118
TmVector(encoded_soil_type, sd, cd) ==
    << Some(encoded_soil_type),
       DictGet(sd, "ph", Some(0)),
       DictGet(sd, "k", Some(0)),
       DictGet(sd, "p", Some(0)),
       DictGet(sd, "n", Some(0)),
       Some(cd.temperature),
       Some(cd.humidity) >>

\* train_model/climate_utils.py 102-118
TmAssemble ==
    /\ variant = "tm" /\ pc = "assemble"
    /\ LET sd == Val(soil_data)
           soil_type == map_texture_to_soil_type_climate_utils(
                            DictGet(sd, "texture_class", None), DictGet(sd, "clay", None),
                            DictGet(sd, "sand", None), DictGet(sd, "silt", None))
       IN  IF soil_type.exc # ""
           THEN raised' = soil_type.exc /\ UNCHANGED <<soil_label, input_vector>>
           ELSE IF transform(soil_type.label).exc # ""
           THEN /\ raised' = transform(soil_type.label).exc
                /\ soil_label' = Some(soil_type.label)
                /\ input_vector' = input_vector
           ELSE /\ raised' = raised
                /\ soil_label' = Some(soil_type.label)
                /\ input_vector' = Some(TmVector(transform(soil_type.label).code, sd,
                                                 Val(climate_data)))
    /\ pc' = "done"
    /\ UNCHANGED <<variant, month, climate_src, climate_exc, climate_data, soil_resp,
                   soil_data, calls, queries>>
    /\ UNCHANGED <<cvars, svars, xvars, hvars>>

Next ==
    \/ Validate \/ MainClimate \/ MainSoil \/ MainDefaultSoil \/ MainAssemble
    \/ MainReturn \/ TmSoil \/ TmClimate \/ TmAssemble

\* the invocation returned its vector
Returned == pc = "done" /\ raised = ""

----------------------------------------------------------------------------
(* Specifications.  Each runs one component; the others stay idle. *)

ClimateIdle ==
    /\ cpc = "idle" /\ target_month = 0 /\ current_month = 0 /\ year = FirstYear
    /\ temp_sum = 0 /\ dew_sum = 0 /\ total_weight = 0 /\ skipped = 0
    /\ fetched = <<>> /\ cresult = NoResult

SoilIdle ==
    /\ spc = "idle" /\ max_radius = 0 /\ step = 0
    /\ ring = 1 /\ offset = 1 /\ probes = <<>> /\ sresult = Pending

PipelineIdle ==
    /\ pc = "idle" /\ variant = "" /\ month = 0
    /\ climate_src = "" /\ climate_exc = "" /\ climate_data = None
    /\ soil_resp = None /\ soil_data = None
    /\ soil_label = None /\ input_vector = None
    /\ raised = "" /\ calls = <<>> /\ queries = <<>>

ShuffleIdle ==
    /\ assignment = [src |-> "", m |-> 0]
    /\ visited = {} /\ moved = 0
    /\ shuffled = [ts |-> 0, ds |-> 0, tw |-> 0]

ClassifyIdle ==
    /\ texture = [texture_class |-> None, clay |-> None, sand |-> None, silt |-> None]
    /\ classified = None
    /\ encoded = None

InitClimate ==
    /\ ClimateInit /\ SoilIdle /\ lat = 0 /\ lon = 0 /\ PipelineIdle /\ ClassifyIdle
    /\ ShuffleIdle
SpecClimate == InitClimate /\ [][ClimateNext]_vars

InitSoil == SoilInit /\ ClimateIdle /\ PipelineIdle /\ ClassifyIdle /\ ShuffleIdle
SpecSoil == InitSoil /\ [][SoilNext]_vars

Init == PipelineInit /\ ClimateIdle /\ SoilIdle /\ ClassifyIdle /\ ShuffleIdle
Spec == Init /\ [][Next]_vars

InitClassify ==
    /\ ClassifyInit /\ ClimateIdle /\ SoilIdle /\ lat = 0 /\ lon = 0 /\ PipelineIdle
    /\ ShuffleIdle
SpecClassify == InitClassify /\ [][ClassifyNext]_vars

InitShuffle ==
    /\ ShuffleInit /\ ClimateIdle /\ SoilIdle /\ lat = 0 /\ lon = 0 /\ PipelineIdle
    /\ ClassifyIdle
SpecShuffle == InitShuffle /\ [][ShuffleNext]_vars

----------------------------------------------------------------------------
(* Claims on the soil fallback search (SpecSoil) *)

\* C2: the search returns the sample of the first probe, in probe order,
\* that yields any non-null property, and issues no probe after it: a probe
\* that was answered with a property is the last probe of the log, the
\* search is over and its result is that probe's sample.  In particular a
\* hit at the exact coordinate leaves the log with that single probe.
C2_FirstHitReturned ==
    \A i \in 1..Len(probes) :
        probes[i].answer # None =>
            /\ i = Len(probes)
            /\ spc = "done"
            /\ sresult = <<"return", probes[i].answer>>

\* a search that missed nine times and was then answered by the second ring
C2_Witness ==
    /\ spc = "done"
    /\ Len(probes) > 9
    /\ probes[Len(probes)].answer # None
    /\ sresult = <<"return", probes[Len(probes)].answer>>

\* C3: the probed coordinates are a prefix of the fixed sequence: the exact
\* coordinate, then ring by ring (radius step, 2*step, ...) the offsets
\* (+r,0) (-r,0) (0,+r) (0,-r) (+r,+r) (-r,-r) (+r,-r) (-r,+r).
C3_Direction ==
    << <<1, 0>>, <<-1, 0>>, <<0, 1>>, <<0, -1>>,
       <<1, 1>>, <<-1, -1>>, <<1, -1>>, <<-1, 1>> >>

C3_Expected(i) ==
    IF i = 1 THEN <<lat, lon>>
    ELSE LET r == step * (((i - 2) \div 8) + 1)
             d == C3_Direction[((i - 2) % 8) + 1]
         IN  <<lat + d[1] * r, lon + d[2] * r>>

C3_ProbeOrder ==
    \A i \in 1..Len(probes) : <<probes[i].lat, probes[i].lon>> = C3_Expected(i)

\* a search that has gone through two whole rings and into the third
C3_Witness == Len(probes) >= 20 /\ RingCount(max_radius, step) >= 3

\* C17: when no probe yields data, whether the source answers without
\* values or raises, the search ends with None after exactly 1 + 8 * k
\* probes, k the number of positive multiples of step up to max_radius,
\* max_radius included (41 probes for the defaults).
C17_NoProbeYieldedData ==
    spc = "done" /\ \A i \in 1..Len(probes) : probes[i].answer = None

C17_ExhaustedAfterAllRings ==
    C17_NoProbeYieldedData =>
        /\ sresult = Return(None)
        /\ Len(probes) = 1 + 8 * (max_radius \div step)

\* C19 as claimed: along the probes of a search the straight-line distance
\* from the queried coordinate to the probed point never decreases.
C19_Abs(n) == IF n < 0 THEN 0 - n ELSE n

C19_SquaredDistance(pr) ==
    (pr.lat - lat) * (pr.lat - lat) + (pr.lon - lon) * (pr.lon - lon)

C19_EuclideanNearestFirst ==
    \A i \in 1..(Len(probes) - 1) :
        C19_SquaredDistance(probes[i]) <= C19_SquaredDistance(probes[i + 1])

\* C19 as amended: along the probes of a search the larger of the two
\* coordinate differences (the radius of the ring the probe lies on) never
\* decreases; the straight-line distance does decrease, from the diagonal
\* probes of ring i to the axis probes of ring i + 1 when i >= 3.
C19_RingRadius(pr) ==
    IF C19_Abs(pr.lat - lat) >= C19_Abs(pr.lon - lon)
    THEN C19_Abs(pr.lat - lat) ELSE C19_Abs(pr.lon - lon)

C19_RingByRing ==
    /\ \A i \in 1..(Len(probes) - 1) :
          C19_RingRadius(probes[i]) <= C19_RingRadius(probes[i + 1])
    /\ \A i \in 1..(Len(probes) - 1) :
          (C19_RingRadius(probes[i]) <= 2 * step
             /\ C19_RingRadius(probes[i]) < C19_RingRadius(probes[i + 1]))
          => C19_SquaredDistance(probes[i]) <= C19_SquaredDistance(probes[i + 1])

\* the search went from the last diagonal of ring 3 to the first axis probe
\* of ring 4, which is nearer in a straight line
C19_Witness ==
    /\ Len(probes) >= 26
    /\ C19_RingRadius(probes[25]) < C19_RingRadius(probes[26])
    /\ C19_SquaredDistance(probes[25]) > C19_SquaredDistance(probes[26])

----------------------------------------------------------------------------
(* Claims on get_weighted_climate (SpecClimate) *)

\* C4: get_weighted_climate raises the "no valid climate data" ValueError
\* if and only if none of the 25 years gave both a temperature and a
\* dewpoint; when at least one year gave both it returns a result, and the
\* weight it divides by is strictly positive.
C4_NoClimateDataIffNoYear ==
    /\ (total_weight > 0) <=> ((year - FirstYear) - skipped > 0)
    /\ cpc = "done" =>
          /\ (cresult.exc = NoClimateData) <=> (skipped = Cardinality(Years))
          /\ skipped < Cardinality(Years) => cresult.exc = "" /\ total_weight > 0

\* a finished invocation in which a single year, 2000, gave both values
C4_Witness ==
    /\ cpc = "done"
    /\ skipped = Cardinality(Years) - 1
    /\ total_weight = weights(FirstYear)
    /\ cresult.exc = ""

\* C5: a year whose fetch raises, or whose temperature or dewpoint is None,
\* leaves temp_sum, dew_sum and total_weight unchanged and the loop goes on
\* to the next year; no step changes one of the three sums without the
\* others; a finished invocation has fetched every year 2000..2024.
C5_SkippedYearKeepsSums ==
    /\ [][ skipped' # skipped =>
              /\ temp_sum' = temp_sum /\ dew_sum' = dew_sum
              /\ total_weight' = total_weight
              /\ cpc' = "loop" /\ year' = year + 1
              /\ Len(fetched') = Len(fetched) + 1 ]_vars
    /\ [][ /\ (temp_sum' # temp_sum) <=> (total_weight' # total_weight)
           /\ (dew_sum' # dew_sum) <=> (total_weight' # total_weight) ]_vars
    /\ [](cpc = "done" =>
              /\ Len(fetched) = Cardinality(Years)
              /\ \A i \in 1..Len(fetched) : fetched[i].y = FirstYear + i - 1)

\* a finished invocation that skipped every year before 2024 and still
\* fetched and accumulated 2024
C5_Witness ==
    /\ cpc = "done"
    /\ skipped = Cardinality(Years) - 1
    /\ total_weight = weights(LastYear)
    /\ Len(fetched) = Cardinality(Years)

\* C20: the weight of a year, 0.1 + 0.9 * (y - 2000) / 24, is 0.1 for 2000
\* and 1.0 for 2024, grows strictly from each year to the next and is
\* positive, so a year that has both values always adds to total_weight.
C20_WeightIncreasing ==
    /\ [](year \in Years =>
            /\ weights(year) > 0
            /\ year = FirstYear => 10 * weights(year) = WeightScale
            /\ year = LastYear => weights(year) = WeightScale
            /\ year > FirstYear => weights(year) > weights(year - 1))
    /\ [][(cpc = "loop" /\ year' = year + 1 /\ skipped' = skipped)
            => (total_weight' = total_weight + weights(year)
                /\ total_weight' > total_weight)]_vars
    /\ [][(cpc = "loop" /\ year' = year + 1 /\ skipped' = skipped /\ year > FirstYear)
            => total_weight' - total_weight > weights(FirstYear)]_vars

\* the loop is past 2024 and the two years that had both values, 2000 and
\* 2024, added 0.1 and 1.0
C20_Witness ==
    /\ year = LastYear + 1
    /\ skipped = Cardinality(Years) - 2
    /\ 10 * total_weight = 11 * WeightScale

\* C16: a call with month 0 continues from the state a call with the
\* current month passed explicitly continues from, so it issues the same
\* fetches and ends the same way: the clock is read once, before any fetch,
\* month 0 becomes the month read, and every year's window is of that month.
C16_MonthZeroIsCurrentMonth ==
    /\ [][cpc = "start" =>
             /\ fetched = <<>> /\ fetched' = <<>>
             /\ current_month' \in 1..12
             /\ target_month' = IF target_month = 0 THEN current_month' ELSE target_month
          ]_vars
    /\ [][cpc # "start" =>
             (target_month' = target_month /\ current_month' = current_month)]_vars
    /\ [](\A i \in 1..Len(fetched) :
             fetched[i] = FetchWindow(FirstYear + i - 1, target_month))
    /\ [](cpc = "done" =>
             \A src \in ClimateSources :
                get_weighted_climate(0, current_month, src)
                  = get_weighted_climate(current_month, current_month, src))

\* a call ended with a result after 25 fetches of the month the clock showed
C16_Witness ==
    /\ cpc = "done" /\ cresult.exc = ""
    /\ target_month = current_month
    /\ Len(fetched) = Cardinality(Years)
    /\ fetched[Len(fetched)] = FetchWindow(LastYear, current_month)

\* C15: for a fixed assignment of samples to the years, applying the loop
\* body to the 25 years in another order gives the temp_sum, dew_sum and
\* total_weight of the ascending order, hence the same result or the same
\* NoClimateData.
C15_InOrder ==
    ClimateLoop(FirstYear, [ts |-> 0, ds |-> 0, tw |-> 0], assignment.src, assignment.m)

----------------------------------------------------------------------------
(* Claims on prepare_input_vector (Spec) *)

\* C1: an invocation either fails or returns a vector of exactly 7
\* elements, none of which is None.
C1_VectorCompleteOrFails ==
    Returned =>
        /\ input_vector # None
        /\ Len(Val(input_vector)) = 7
        /\ \A i \in 1..Len(Val(input_vector)) : Val(input_vector)[i] # None

\* a returned vector built from a SoilGrids answer without pH and nitrogen
C1_Witness ==
    /\ Returned
    /\ variant = "main"
    /\ Val(soil_resp).layers # None
    /\ Val(Val(soil_resp).layers)["phh2o"].mean = None
    /\ Val(Val(soil_resp).layers)["clay"].mean # None

\* C6 as claimed: when get_weighted_climate fails with "no valid climate
\* data" the invocation fails with that error, returns no vector and no
\* substitute climate values are used.
C6_NoClimateDataFailsInvocation ==
    climate_exc = NoClimateData =>
        /\ climate_data = None
        /\ pc = "done" /\ raised = NoClimateData /\ input_vector = None

\* C6 as amended: train_model/climate_utils.py's prepare_input_vector fails
\* with the error and returns no vector; main.py's catches it, substitutes
\* temperature 20.0 and humidity 70.0 and goes on to return a vector that
\* holds them.
C6_NoClimateDataPerBuilder ==
    climate_exc = NoClimateData =>
        /\ variant = "tm" =>
              /\ climate_data = None
              /\ pc = "done" /\ raised = NoClimateData /\ input_vector = None
        /\ variant = "main" =>
              /\ climate_data = Some([temperature |-> 2000, humidity |-> 7000])
              /\ raised = ""
              /\ pc = "done" =>
                    /\ Val(input_vector)[6] = Some(2000)
                    /\ Val(input_vector)[7] = Some(7000)

\* main.py returned a vector although every year of the climate source failed
C6_Witness ==
    /\ Returned
    /\ variant = "main"
    /\ climate_exc = NoClimateData
    /\ climate_src = "raise"

\* C7 as claimed: the invocation fails with the "unplantable" error
\* whenever the soil resolver returned None and the temperature is below
\* -5, and does not raise it otherwise.
C7_UnplantableMessage == "ValueError: This region is unplantable"

C7_UnplantableWheneverNoSoilAndCold ==
    [][ (pc = "check" \/ pc = "assemble") =>
          ((raised' = C7_UnplantableMessage)
             <=> (soil_data \in {None, Some(<<>>)}
                     /\ Val(climate_data).temperature < -500)) ]_vars

\* C7 as amended: main.py's prepare_input_vector fails with the
\* "unplantable" error exactly when get_partial_soil_data returned None and
\* the temperature it holds is below -5 (-5 itself passes), and then it
\* returns no vector; train_model/climate_utils.py's never raises it.
C7_UnplantableInMainOnly ==
    /\ [][ (variant = "main" /\ pc = "check") =>
              ((raised' = C7_UnplantableMessage)
                 <=> (soil_data = None /\ Val(climate_data).temperature < -500)) ]_vars
    /\ [](raised = C7_UnplantableMessage =>
              variant = "main" /\ pc = "done" /\ input_vector = None)
    /\ []((variant = "main" /\ raised = C7_UnplantableMessage) =>
              (soil_data = None /\ Val(climate_data).temperature < -500))

\* main.py refused a coordinate without soil whose climate is at -5.01
C7_Witness ==
    /\ variant = "main"
    /\ raised = C7_UnplantableMessage
    /\ climate_src = "frost"
    /\ Val(climate_data).temperature = -501

\* C8: when the soil source gave a sample of which a chemistry field is
\* missing, the invocation does not fail and the vector holds the default
\* of that field (ph 6.5, n 15.0, p 25.0, k 180.0); fields that have a value
\* are passed through.
C8_Missing(field) ==
    IF variant = "main"
    THEN CASE field = "ph" -> Val(Val(soil_resp).layers)["phh2o"].mean = None
           [] field = "n" -> Val(Val(soil_resp).layers)["nitrogen"].mean = None
           [] OTHER -> TRUE
    ELSE Val(soil_resp).resp.means[field] = None

C8_SamplePresent ==
    /\ pc = "done"
    /\ soil_resp # None
    /\ IF variant = "main"
       THEN get_partial_soil_data(Val(soil_resp)) # None
       ELSE fetch_soil_with_fallback(Val(soil_resp)).result # None
    /\ variant = "tm" => climate_exc = ""

C8_ChemistryDefaults ==
    C8_SamplePresent =>
        /\ raised = ""
        /\ C8_Missing("ph") => Val(input_vector)[2] = Some(65)
        /\ C8_Missing("k") => Val(input_vector)[3] = Some(1800)
        /\ C8_Missing("p") => Val(input_vector)[4] = Some(250)
        /\ C8_Missing("n") => Val(input_vector)[5] = Some(150)

\* C9 as claimed: an input with month in 0..12, latitude in [-90, 90] and
\* longitude in [-180, 180] is accepted; every other input is rejected with
\* a validation error before any external call.
C9_ValidationErrors ==
    { "ValueError: Month must be between 1 and 12.",
      "ValueError: Latitude must be between -90 and 90.",
      "ValueError: Longitude must be between -180 and 180." }

C9_Started == (variant = "main" /\ pc # "validate") \/ (variant = "tm" /\ pc # "soil")

C9_AcceptsMonth0To12 ==
    C9_Started =>
        IF month \in 0..12 /\ lat \in -900..900 /\ lon \in -1800..1800
        THEN raised \notin C9_ValidationErrors
        ELSE raised \in C9_ValidationErrors /\ pc = "done" /\ calls = <<>>

\* C9 as amended: main.py's prepare_input_vector accepts an input with
\* month in 1..12, latitude in [-90, 90] and longitude in [-180, 180] and
\* rejects every other input, month 0 included, with a ValueError before
\* any external call; train_model/climate_utils.py's validates nothing.
C9_MainAcceptsMonth1To12 ==
    /\ (variant = "main" /\ pc # "validate") =>
          IF month \in 1..12 /\ lat \in -900..900 /\ lon \in -1800..1800
          THEN raised \notin C9_ValidationErrors
          ELSE raised \in C9_ValidationErrors /\ pc = "done" /\ calls = <<>>
    /\ variant = "tm" => raised \notin C9_ValidationErrors
    /\ (variant = "tm" /\ pc # "soil") => calls # <<>>

\* main.py rejected month 0 without having called anything
C9_Witness ==
    /\ variant = "main"
    /\ month = 0
    /\ lat \in -900..900 /\ lon \in -1800..1800
    /\ pc = "done"
    /\ raised = "ValueError: Month must be between 1 and 12."
    /\ calls = <<>>

\* C13: a returned vector is, in this order, the code of the label
\* classified from the soil sample in use, that sample's ph, k, p and n, and
\* the temperature and humidity of the climate result in use.
C13_SampleLabel ==
    LET sd == Val(soil_data)
    IN  IF variant = "main"
        THEN map_texture_to_soil_type_soil_utils(sd.clay_percent, sd.sand_percent,
                                                 sd.silt_percent).label
        ELSE map_texture_to_soil_type_climate_utils(sd.texture_class, sd.clay, sd.sand,
                                                    sd.silt).label

C13_Code(label) ==
    IF variant = "main" THEN encode_soil_type_soil_utils(label) ELSE transform(label).code

C13_VectorOrder ==
    Returned =>
        LET sd == Val(soil_data)
            cd == Val(climate_data)
            v == Val(input_vector)
        IN  /\ Len(v) = 7
            /\ soil_label = Some(C13_SampleLabel)
            /\ v[1] = Some(C13_Code(C13_SampleLabel))
            /\ v[2] = sd.ph /\ v[3] = sd.k /\ v[4] = sd.p /\ v[5] = sd.n
            /\ v[6] = Some(cd.temperature) /\ v[7] = Some(cd.humidity)

\* main.py returned the vector of a SoilGrids sample, built with the fetched
\* climate, whose k and n (and ph and p) differ
C13_Witness ==
    /\ Returned /\ variant = "main"
    /\ get_partial_soil_data(Val(soil_resp)) # None
    /\ climate_exc = ""
    /\ Val(input_vector)[3] # Val(input_vector)[5]
    /\ Val(input_vector)[2] # Val(input_vector)[4]

\* C18: an invocation sends no request twice: every year's window is
\* fetched at most once and every coordinate is probed at most once,
\* whatever the earlier requests gave.
C18_NoQueryRepeated ==
    \A i, j \in 1..Len(queries) :
        (i # j /\ queries[i].kind = queries[j].kind) => queries[i].key # queries[j].key

\* the search went through all 41 probes and every fetch of the 25 years
\* raised
C18_Witness ==
    /\ variant = "tm" /\ pc = "done"
    /\ climate_src = "raise"
    /\ Len(queries) = 41 + Cardinality(Years)
    /\ queries[41].kind = "soil" /\ queries[42].kind = "climate"

----------------------------------------------------------------------------
(* Claims on map_texture_to_soil_type (SpecClassify) *)

\* C10: a call with at least one of clay, sand, silt None returns "Unknown"
\* and does not raise, whatever the other arguments are.
C10_NullTextureIsUnknown ==
    (/\ classified # None
     /\ (texture.clay = None \/ texture.sand = None \/ texture.silt = None))
    => (Val(classified).exc = "" /\ Val(classified).label = "Unknown")

\* C11: without a texture hint and with clay, sand and silt all present the
\* label is that of the first rule that matches, in the order clay > 40
\* Clay, sand > 70 Sandy, silt > 40 Silty, 20 < clay <= 40 and
\* 20 < sand <= 70 and 20 < silt <= 70 Loamy.
C11_NoHint ==
    /\ classified # None
    /\ texture.clay # None /\ texture.sand # None /\ texture.silt # None
    /\ Val(classified).by = "climate_utils.py" => texture.texture_class = Some("Unknown")

C11_Rule(c, s, t) ==
    IF c > 400 THEN "Clay"
    ELSE IF s > 700 THEN "Sandy"
    ELSE IF t > 400 THEN "Silty"
    ELSE IF 200 < c /\ c <= 400 /\ 200 < s /\ s <= 700 /\ 200 < t /\ t <= 700
         THEN "Loamy"
    ELSE "none"

C11_FirstMatchingRule ==
    C11_NoHint =>
        LET rule == C11_Rule(Val(texture.clay), Val(texture.sand), Val(texture.silt))
        IN  rule # "none" =>
                (Val(classified).exc = "" /\ Val(classified).label = rule)

\* C12: a label returned by map_texture_to_soil_type is one of the nine
\* soil types, whatever the hint and the percentages are.
C12_NineLabels ==
    {"Black", "Red", "Peaty", "Saline", "Sandy", "Clay", "Loamy", "Silty", "Unknown"}

C12_LabelIsOneOfNine ==
    (classified # None /\ Val(classified).exc = "")
        => Val(classified).label \in C12_NineLabels

\* C14: wherever a soil label is encoded, a label that is not in the
\* encoding table gets the code of "Unknown", and no encoding raises.
C14_InTable(by, label) ==
    IF by = "soil_utils.py" THEN label \in DOMAIN SOIL_TYPE_ENCODER
    ELSE \E i \in 1..Len(classes_) : classes_[i] = label

C14_UnknownCode(by) ==
    IF by = "soil_utils.py" THEN SOIL_TYPE_ENCODER["Unknown"]
    ELSE (CHOOSE i \in 1..Len(classes_) : classes_[i] = "Unknown") - 1

C14_UnseenLabelIsUnknown ==
    encoded # None =>
        /\ Val(encoded).exc = ""
        /\ ~C14_InTable(Val(encoded).by, Val(classified).label)
                => Val(encoded).code = C14_UnknownCode(Val(encoded).by)

\* C21: the encoding that makes element 0 of the vector gives different
\* codes to different labels among the nine soil types; in particular
\* "Silty" and "Unknown" do not share a code.
C21_CodeOf(by, label) ==
    IF by = "soil_utils.py" THEN encode_soil_type_soil_utils(label)
    ELSE encode_soil_type(label)

C21_EncodingInjective ==
    (encoded # None /\ Val(encoded).exc = "" /\ Val(classified).label \in C12_NineLabels)
    => \A other \in C12_NineLabels \ {Val(classified).label} :
           C21_CodeOf(Val(encoded).by, other) # Val(encoded).code

\* C22: the four-argument map_texture_to_soil_type of climate_utils.py,
\* called with the hint "Unknown" and three numbers, never returns "Peaty":
\* an input of the Peaty rule (silt > 50, clay < 10, sand < 20) is taken by
\* an earlier rule, here silt > 40.
C22_CascadeCall ==
    /\ classified # None
    /\ Val(classified).by = "climate_utils.py"
    /\ texture.texture_class = Some("Unknown")
    /\ texture.clay # None /\ texture.sand # None /\ texture.silt # None

C22_PeatyRule ==
    Val(texture.silt) > 500 /\ Val(texture.clay) < 100 /\ Val(texture.sand) < 200

C22_PeatyNeverReturned ==
    C22_CascadeCall =>
        /\ Val(classified).exc = ""
        /\ Val(classified).label # "Peaty"
        /\ C22_PeatyRule => Val(classified).label = "Silty"

\* clay 5, sand 15, silt 55 satisfies the Peaty rule and came back "Silty"
C22_Witness ==
    /\ C22_CascadeCall /\ C22_PeatyRule
    /\ texture.clay = Some(50) /\ texture.sand = Some(150) /\ texture.silt = Some(550)
    /\ Val(classified).label = "Silty"

====
